---------------------------- MODULE Spec2Model ----------------------------
(***************************************************************************)
(* A model of the two programs of the repository:                          *)
(*   pcap_analyzer.py  parse_pcap: walks the records of a capture buffer   *)
(*                     and peels Ethernet / IPv4 / TCP framing off each.   *)
(*   test_client.py    test_server: connect, Login, receive, KeepAlive,    *)
(*                     receive, close.                                     *)
(* A behaviour runs one of the two programs on one input.  Byte strings    *)
(* are sequences of 0..255; offsets are 0-based as in the source and       *)
(* slices follow Python's clamping semantics.                              *)
(***************************************************************************)
EXTENDS Integers, Sequences, FiniteSets, TLC

VARIABLES
    input,          \* ghost: the description the capture buffer was built from
    data,           \* parse_pcap: the bytes of the file
    pc,             \* parse_pcap: position in the function
    offset,         \* parse_pcap: cursor into data
    packet_num,     \* parse_pcap: record counter
    hdr,            \* parse_pcap: ts_sec, ts_usec, incl_len, orig_len of the current record
    packet_data,    \* parse_pcap: the current record's frame bytes
    out,            \* parse_pcap: what has been printed, as a sequence of events
    rd,             \* ghost: the byte ranges the last step read, with the buffer's length
    cpc,            \* test_server: position in the function
    net,            \* test_server: the socket events performed, in order
    response,       \* test_server: the bytes the last recv returned
    decoded,        \* test_server: the (type, result) pairs printed
    result          \* test_server: the return value ("none" until it returns)

pvars == <<input, data, pc, offset, packet_num, hdr, packet_data, out, rd>>
cvars == <<cpc, net, response, decoded, result>>
vars == <<input, data, pc, offset, packet_num, hdr, packet_data, out, rd,
          cpc, net, response, decoded, result>>

(***************************************************************************)
(* Bounds of the model.                                                    *)
(***************************************************************************)
MaxRecs == 2      \* records in a generated capture
MaxK == 4         \* payload bytes after a 54-byte Ethernet+IPv4+TCP header
MaxResp == 9      \* bytes a recv may return

Min(a, b) == IF a < b THEN a ELSE b
Max(a, b) == IF a > b THEN a ELSE b

(***************************************************************************)
(* Python primitives.                                                      *)
(***************************************************************************)
\* s[a:b] for 0 <= a: clamped to the sequence, never failing.
PySlice(s, a, b) == SubSeq(s, Min(a, Len(s)) + 1, Min(Max(a, b), Len(s)))

\* struct.pack('<I', n), for 0 <= n < 2^31
PackLE32(n) == << n % 256, (n \div 256) % 256, (n \div 65536) % 256, (n \div 16777216) % 256 >>

\* An unsigned 32-bit value v is held as its two 16-bit halves, v = 65536 * hi + lo,
\* because TLC's integers stop short of 2^32.
U32(h, l) == [hi |-> h, lo |-> l]

\* struct.unpack('>I', b)[0]: the big-endian reading of the same four bytes
UnpackBE32(b) == U32(256 * b[1] + b[2], 256 * b[3] + b[4])

\* struct.unpack('<I', b)[0]; struct.error unless len(b) = 4 (see CanUnpack)
UnpackLE32(b) == U32(256 * b[4] + b[3], 256 * b[2] + b[1])

\* a + v > n for small naturals a, n (below 65536) and a 32-bit v
SumExceeds(a, v, n) == v.hi > 0 \/ a + v.lo > n

\* struct.unpack('>H', b)[0]; struct.error unless len(b) = 2
UnpackBE16(b) == 256 * b[1] + b[2]

\* struct.unpack raises struct.error when the buffer is not exactly n bytes
CanUnpack(b, n) == Len(b) = n

\* a read of bytes lo .. hi-1 of a buffer of length n
Read(lo, hi, n) == [lo |-> lo, hi |-> hi, len |-> n]

(***************************************************************************)
(* The capture buffers the model runs parse_pcap on.  A buffer is a        *)
(* 24-byte global header, then n records (16-byte record header + frame),  *)
(* then the last `cut` bytes dropped.  Odd records carry frame f, even     *)
(* records frame g; record `bad` (if any) declares `over` bytes more than  *)
(* its frame has.                                                          *)
(***************************************************************************)
\* filler byte at 0-based frame offset i: distinct for distinct offsets below 256
Fill(i) == (i * 7 + 1) % 256

\* byte i of a frame with ether type p.eth, first IP byte p.vihl, protocol
\* byte p.proto and TCP data-offset byte p.doff (placed 12 bytes into the TCP
\* header, which starts 14 + 4 * IHL bytes into the frame)
FrameByte(p, i) ==
    IF i = 12 THEN p.eth \div 256
    ELSE IF i = 13 THEN p.eth % 256
    ELSE IF i = 14 THEN p.vihl
    ELSE IF i = 23 THEN p.proto
    ELSE IF i = 14 + (p.vihl % 16) * 4 + 12 THEN p.doff
    ELSE Fill(i)

Frame(p) == [i \in 1 .. p.len |-> FrameByte(p, i - 1)]

BaseFrame == [eth |-> 2048, vihl |-> 69, proto |-> 6, doff |-> 80]

FrameKinds ==
    { BaseFrame,
      [BaseFrame EXCEPT !.eth = 2054],      \* ARP
      [BaseFrame EXCEPT !.vihl = 70],       \* IHL 6: one word of IP options
      [BaseFrame EXCEPT !.vihl = 64],       \* IHL 0
      [BaseFrame EXCEPT !.vihl = 79],       \* IHL 15
      [BaseFrame EXCEPT !.vihl = 101],      \* version 6
      [BaseFrame EXCEPT !.proto = 17],      \* UDP
      [BaseFrame EXCEPT !.doff = 96],       \* data offset 6: one word of TCP options
      [BaseFrame EXCEPT !.doff = 0],        \* data offset 0
      [BaseFrame EXCEPT !.doff = 240] }     \* data offset 15

FrameLens == {13, 14, 33, 34, 53} \cup (54 .. 54 + MaxK) \cup {58 + MaxK}

FrameSet == { [len |-> l, eth |-> k.eth, vihl |-> k.vihl, proto |-> k.proto, doff |-> k.doff] :
              l \in FrameLens, k \in FrameKinds }

\* the frames of the even records
SecondFrames == { [len |-> l, eth |-> 2048, vihl |-> 69, proto |-> 6, doff |-> 80] : l \in {13, 55} }

HeaderKinds == {"good", "other", "swapped", "near"}

\* the 24-byte global header: magic, version 2.4, thiszone, sigfigs, snaplen, network
GlobalHeader(hk) ==
    CASE hk = "good"    -> <<212, 195, 178, 161>> \o <<2, 0, 4, 0>> \o PackLE32(0) \o PackLE32(0)
                           \o PackLE32(65535) \o PackLE32(1)
      [] hk = "other"   -> <<212, 195, 178, 161>> \o <<9, 9, 9, 9>> \o PackLE32(77) \o PackLE32(5)
                           \o PackLE32(3) \o PackLE32(105)
      [] hk = "swapped" -> <<161, 178, 195, 212>> \o <<0, 2, 0, 4>> \o PackLE32(0) \o PackLE32(0)
                           \o PackLE32(65535) \o PackLE32(1)
      [] hk = "near"    -> <<212, 195, 178, 160>> \o <<2, 0, 4, 0>> \o PackLE32(0) \o PackLE32(0)
                           \o PackLE32(65535) \o PackLE32(1)

\* frame of record k of input inp
FrameOf(inp, k) == IF k % 2 = 1 THEN inp.f ELSE inp.g

\* incl_len declared by record k
DeclaredLen(inp, k) == FrameOf(inp, k).len + (IF k = inp.bad THEN inp.over ELSE 0)

\* ts_sec written in record k
TsSec(k) == 70000 + k

\* record k: ts_sec, ts_usec, incl_len, orig_len, frame bytes
RecordBytes(inp, k) ==
    PackLE32(TsSec(k)) \o PackLE32(k) \o PackLE32(DeclaredLen(inp, k))
    \o PackLE32(FrameOf(inp, k).len) \o Frame(FrameOf(inp, k))

RECURSIVE RecordsBytes(_, _)
RecordsBytes(inp, k) ==
    IF k > inp.n THEN << >> ELSE RecordBytes(inp, k) \o RecordsBytes(inp, k + 1)

FullBuffer(inp) == GlobalHeader(inp.hk) \o RecordsBytes(inp, 1)

Buffer(inp) == SubSeq(FullBuffer(inp), 1, Max(0, Len(FullBuffer(inp)) - inp.cut))

Cuts == {0, 1, 17, 24}

InputSet ==
    { [hk |-> hk, f |-> f, g |-> g, n |-> n, bad |-> bad, over |-> over, cut |-> cut] :
      hk \in HeaderKinds, f \in FrameSet, g \in SecondFrames, n \in 0 .. MaxRecs,
      bad \in 0 .. MaxRecs, over \in {0, 1, 70000}, cut \in Cuts }

\* one description per buffer
Canonical(inp) ==
    /\ inp.bad <= inp.n
    /\ (inp.bad = 0) = (inp.over = 0)
    /\ inp.n = 0 => inp.f.len = 54 /\ inp.f.eth = 2048 /\ inp.f.vihl = 69
                  /\ inp.f.proto = 6 /\ inp.f.doff = 80   \* unused
    /\ inp.n < 2 => inp.g.len = 13                         \* unused
    /\ inp.hk # "good" => inp.n <= 1 /\ inp.bad = 0
    /\ inp.cut = 24 => inp.n = 0

Inputs == { inp \in InputSet : Canonical(inp) }

(***************************************************************************)
(* parse_pcap                                                              *)
(***************************************************************************)
NoHdr == [ts_sec |-> U32(0, 0), ts_usec |-> U32(0, 0), incl_len |-> U32(0, 0), orig_len |-> U32(0, 0)]

InitPcap ==
    /\ input \in Inputs
    /\ data = Buffer(input)
    /\ pc = "start"
    /\ offset = 0
    /\ packet_num = 0
    /\ hdr = NoHdr
    /\ packet_data = << >>
    /\ out = << >>
    /\ rd = {}
    /\ cpc = "idle" /\ net = << >> /\ response = << >> /\ decoded = << >> /\ result = "none"

\* if len(data) < 24
TooSmall == Len(data) < 24

\* the magic read in the other byte order
Magic_BigEndian == UnpackBE32(PySlice(data, 0, 4))

\* magic = struct.unpack('<I', data[0:4])[0]
Magic == UnpackLE32(PySlice(data, 0, 4))

\* if magic != 0xa1b2c3d4   (0xa1b2 = 41394, 0xc3d4 = 50132)
BadMagic == Magic # U32(41394, 50132)

\* Lines 14-28: the global header check and the cursor's initial position.
CheckGlobalHeader ==
    /\ pc = "start"
    /\ IF TooSmall
       THEN /\ out' = Append(out, [ev |-> "too_small"])
            /\ pc' = "done"
            /\ rd' = {}
            /\ UNCHANGED <<offset, packet_num>>
       ELSE IF ~CanUnpack(PySlice(data, 0, 4), 4)
       THEN /\ pc' = "raised"
            /\ rd' = {Read(0, 4, Len(data))}
            /\ UNCHANGED <<out, offset, packet_num>>
       ELSE IF BadMagic
       THEN /\ out' = Append(out, [ev |-> "bad_magic"])
            /\ pc' = "done"
            /\ rd' = {Read(0, 4, Len(data))}
            /\ UNCHANGED <<offset, packet_num>>
       ELSE /\ out' = Append(out, [ev |-> "analyzing", size |-> Len(data)])
            /\ offset' = 24
            /\ packet_num' = 0
            /\ pc' = "loop"
            /\ rd' = {Read(0, 4, Len(data))}
    /\ UNCHANGED <<input, data, hdr, packet_data>>
    /\ UNCHANGED cvars

\* while offset < len(data)
MoreData == offset < Len(data)

\* if offset + 16 > len(data): break
HeaderTruncated == offset + 16 > Len(data)

\* Lines 30-41: the loop test, the record header and the cursor's advance over it.
ReadRecordHeader ==
    /\ pc = "loop"
    /\ IF ~MoreData \/ HeaderTruncated
       THEN /\ pc' = "done"
            /\ rd' = {}
            /\ UNCHANGED <<hdr, offset, packet_num>>
       ELSE IF \E i \in 0 .. 3 : ~CanUnpack(PySlice(data, offset + 4 * i, offset + 4 * i + 4), 4)
       THEN /\ pc' = "raised"
            /\ rd' = {Read(offset + 4 * i, offset + 4 * i + 4, Len(data)) : i \in 0 .. 3}
            /\ UNCHANGED <<hdr, offset, packet_num>>
       ELSE /\ hdr' = [ts_sec   |-> UnpackLE32(PySlice(data, offset, offset + 4)),
                       ts_usec  |-> UnpackLE32(PySlice(data, offset + 4, offset + 8)),
                       incl_len |-> UnpackLE32(PySlice(data, offset + 8, offset + 12)),
                       orig_len |-> UnpackLE32(PySlice(data, offset + 12, offset + 16))]
            /\ offset' = offset + 16
            /\ packet_num' = packet_num + 1
            /\ pc' = "record"
            /\ rd' = {Read(offset + 4 * i, offset + 4 * i + 4, Len(data)) : i \in 0 .. 3}
    /\ UNCHANGED <<input, data, packet_data, out>>
    /\ UNCHANGED cvars

\* the truncation check made against the cursor before it passed the record header
RecordTruncated_BeforeHeader == SumExceeds(offset - 16, hdr.incl_len, Len(data))

\* if offset + incl_len > len(data): break
RecordTruncated == SumExceeds(offset, hdr.incl_len, Len(data))

\* incl_len as a number (it is below 65536 whenever the record is not truncated)
InclLen == 65536 * hdr.incl_len.hi + hdr.incl_len.lo

\* the cursor advanced one byte short
NextOffset_OffByOne == offset + InclLen - 1

\* offset += incl_len
NextOffset == offset + InclLen

\* Lines 43-51: the truncation check, the frame slice, the cursor's advance and
\* the packet's header lines.
SliceRecord ==
    /\ pc = "record"
    /\ IF RecordTruncated
       THEN /\ pc' = "done"
            /\ rd' = {}
            /\ UNCHANGED <<packet_data, offset, out>>
       ELSE /\ packet_data' = PySlice(data, offset, offset + InclLen)
            /\ offset' = NextOffset
            /\ out' = Append(out, [ev |-> "packet", num |-> packet_num, len |-> InclLen,
                                   ts_sec |-> hdr.ts_sec, ts_usec |-> hdr.ts_usec])
            /\ pc' = "eth"
            /\ rd' = {Read(offset, offset + InclLen, Len(data))}
    /\ UNCHANGED <<input, data, hdr, packet_num>>
    /\ UNCHANGED cvars

(***************************************************************************)
(* The frame decoder: what lines 53-86 compute from packet_data.           *)
(***************************************************************************)
\* if len(packet_data) < 14: continue
EthTooShort == Len(packet_data) < 14

\* eth_type = struct.unpack('>H', packet_data[12:14])[0]
eth_type == UnpackBE16(PySlice(packet_data, 12, 14))

\* if eth_type != 0x0800: continue
NotIPv4 == eth_type # 2048

\* if len(packet_data) < 34: continue
IpTooShort == Len(packet_data) < 34

\* ip_header = packet_data[14:34]
ip_header == PySlice(packet_data, 14, 34)

\* ip_version = (ip_header[0] >> 4) & 0xF
ip_version == (ip_header[1] \div 16) % 16

\* ip_header_len = (ip_header[0] & 0xF) * 4
ip_header_len == (ip_header[1] % 16) * 4

\* ip_protocol = ip_header[9]
ip_protocol == ip_header[10]

\* the protocol byte left unchecked
NotIPv4TCP_AnyProtocol == ip_version # 4

\* if ip_version != 4 or ip_protocol != 6: continue
NotIPv4TCP == ip_version # 4 \/ ip_protocol # 6

\* tcp_start = 14 + ip_header_len
tcp_start == 14 + ip_header_len

\* the check without the 20-byte minimum TCP header
TcpTooShort_NoMinimum == Len(packet_data) < tcp_start

\* if len(packet_data) < tcp_start + 20: continue
TcpTooShort == Len(packet_data) < tcp_start + 20

\* tcp_header = packet_data[tcp_start:tcp_start+20]
tcp_header == PySlice(packet_data, tcp_start, tcp_start + 20)

\* src_port = struct.unpack('>H', tcp_header[0:2])[0]
src_port == UnpackBE16(PySlice(tcp_header, 0, 2))

\* dst_port = struct.unpack('>H', tcp_header[2:4])[0]
dst_port == UnpackBE16(PySlice(tcp_header, 2, 4))

\* the data offset taken from the low nibble
tcp_header_len_LowNibble == (tcp_header[13] % 16) * 4

\* tcp_header_len = ((tcp_header[12] >> 4) & 0xF) * 4
tcp_header_len == ((tcp_header[13] \div 16) % 16) * 4

\* payload_start = tcp_start + tcp_header_len
payload_start == tcp_start + tcp_header_len

\* payload = packet_data[payload_start:]
payload == PySlice(packet_data, payload_start, Len(packet_data))

\* the report made for an empty payload too
HasPayload_OrEmpty == payload_start <= Len(packet_data)

\* if payload_start < len(packet_data): ... if len(payload) > 0:
HasPayload == payload_start < Len(packet_data) /\ Len(payload) > 0

\* if len(payload) >= 4
HasMsgType == Len(payload) >= 4

\* msg_type = struct.unpack('<I', payload[0:4])[0]
msg_type == UnpackLE32(PySlice(payload, 0, 4))

\* Lines 53-59: the Ethernet header.
ParseEthernet ==
    /\ pc = "eth"
    /\ IF EthTooShort
       THEN pc' = "loop" /\ rd' = {}
       ELSE /\ rd' = {Read(12, 14, Len(packet_data))}
            /\ pc' = IF ~CanUnpack(PySlice(packet_data, 12, 14), 2) THEN "raised"
                     ELSE IF NotIPv4 THEN "loop"
                     ELSE "ip"
    /\ UNCHANGED <<input, data, hdr, packet_data, offset, packet_num, out>>
    /\ UNCHANGED cvars

\* Lines 61-71: the IPv4 header.
ParseIP ==
    /\ pc = "ip"
    /\ IF IpTooShort
       THEN pc' = "loop" /\ rd' = {}
       ELSE /\ rd' = {Read(14, 15, Len(packet_data)), Read(23, 24, Len(packet_data))}
            /\ pc' = IF Len(ip_header) < 10 THEN "raised"     \* IndexError
                     ELSE IF NotIPv4TCP THEN "loop"
                     ELSE "tcp"
    /\ UNCHANGED <<input, data, hdr, packet_data, offset, packet_num, out>>
    /\ UNCHANGED cvars

\* Lines 73-81: the TCP header.
ParseTCP ==
    /\ pc = "tcp"
    /\ IF TcpTooShort
       THEN pc' = "loop" /\ rd' = {}
       ELSE /\ rd' = {Read(tcp_start, tcp_start + 2, Len(packet_data)),
                      Read(tcp_start + 2, tcp_start + 4, Len(packet_data)),
                      Read(tcp_start + 12, tcp_start + 13, Len(packet_data))}
            /\ pc' = IF \/ ~CanUnpack(PySlice(tcp_header, 0, 2), 2)
                        \/ ~CanUnpack(PySlice(tcp_header, 2, 4), 2)
                        \/ Len(tcp_header) < 13                 \* IndexError
                     THEN "raised"
                     ELSE "payload"
    /\ UNCHANGED <<input, data, hdr, packet_data, offset, packet_num, out>>
    /\ UNCHANGED cvars

\* Lines 83-109: the payload and its report.
ExtractPayload ==
    /\ pc = "payload"
    /\ IF HasPayload
       THEN IF HasMsgType /\ ~CanUnpack(PySlice(payload, 0, 4), 4)
            THEN /\ pc' = "raised"
                 /\ rd' = {Read(payload_start, payload_start + 4, Len(packet_data))}
                 /\ UNCHANGED out
            ELSE /\ out' = Append(out, [ev |-> "tcp", num |-> packet_num,
                                        src |-> src_port, dst |-> dst_port,
                                        payload |-> payload,
                                        msg_type |-> IF HasMsgType THEN <<msg_type>> ELSE << >>])
                 /\ rd' = {Read(payload_start, Len(packet_data), Len(packet_data))}
                          \cup (IF HasMsgType
                                THEN {Read(payload_start, payload_start + 4, Len(packet_data))}
                                ELSE {})
                 /\ pc' = "loop"
       ELSE pc' = "loop" /\ rd' = {} /\ UNCHANGED out
    /\ UNCHANGED <<input, data, hdr, packet_data, offset, packet_num>>
    /\ UNCHANGED cvars

(***************************************************************************)
(* test_server                                                             *)
(***************************************************************************)
\* n zero bytes
Zeros(n) == [i \in 1 .. n |-> 0]

\* create_bishop_login_message: tag 1, "bishop" and "1234" null-padded to 32 bytes each
create_bishop_login_message ==
    PackLE32(1) \o <<98, 105, 115, 104, 111, 112>> \o Zeros(32 - 6)
                \o <<49, 50, 51, 52>> \o Zeros(32 - 4)

\* create_ping_message: tag 0xFF
create_ping_message == PackLE32(255)

\* what the peer may answer: the first n bytes of a response with type t, result 1
\* and trailing bytes; n = 0 is the read at end of stream
ResponseBytes(t, n) == [i \in 1 .. n |-> IF i = 1 THEN t ELSE IF i = 5 THEN 1 ELSE IF i > 8 THEN 7 ELSE 0]

Responses == { ResponseBytes(t, n) : t \in {2, 255}, n \in 0 .. MaxResp }

InitClient ==
    /\ cpc = "connect"
    /\ net = << >>
    /\ response = << >>
    /\ decoded = << >>
    /\ result = "none"
    /\ input = [hk |-> "none"] /\ data = << >> /\ pc = "idle" /\ offset = 0 /\ packet_num = 0
    /\ hdr = NoHdr /\ packet_data = << >> /\ out = << >> /\ rd = {}

\* the exception swallowed and the run carried on to its end
Raise_Swallowed ==
    /\ cpc' = "close"
    /\ UNCHANGED result

\* except Exception as e: ... return False
Raise ==
    /\ cpc' = "returned"
    /\ result' = "False"

\* Lines 33-35: socket, settimeout, connect; refused or timed out raises.
Connect ==
    /\ cpc = "connect"
    /\ \E ok \in BOOLEAN :
          /\ net' = Append(net, [op |-> "connect", ok |-> ok, bytes |-> << >>])
          /\ IF ok THEN cpc' = "send_login" /\ UNCHANGED result ELSE Raise
    /\ UNCHANGED <<response, decoded>>
    /\ UNCHANGED pvars

\* Lines 41-42: sock.send(login_msg); a send on a broken connection raises.
SendLogin ==
    /\ cpc = "send_login"
    /\ \E ok \in BOOLEAN :
          /\ net' = Append(net, [op |-> "send_login", ok |-> ok, bytes |-> create_bishop_login_message])
          /\ IF ok THEN cpc' = "recv_login" /\ UNCHANGED result ELSE Raise
    /\ UNCHANGED <<response, decoded>>
    /\ UNCHANGED pvars

\* Line 45: response = sock.recv(1024); a timeout or reset raises.
RecvLogin ==
    /\ cpc = "recv_login"
    /\ \/ /\ net' = Append(net, [op |-> "recv", ok |-> FALSE, bytes |-> << >>])
          /\ Raise
          /\ UNCHANGED response
       \/ \E r \in Responses :
             /\ net' = Append(net, [op |-> "recv", ok |-> TRUE, bytes |-> r])
             /\ response' = r
             /\ cpc' = "decode_login"
             /\ UNCHANGED result
    /\ UNCHANGED decoded
    /\ UNCHANGED pvars

\* if response:
GotResponse == Len(response) > 0

\* the two struct.unpack calls succeed: response[:4] and response[4:8] are 4 bytes each
CanDecode == CanUnpack(PySlice(response, 0, 4), 4) /\ CanUnpack(PySlice(response, 4, 8), 4)

\* msg_type, result_code = unpack('<I', response[:4]), unpack('<I', response[4:8])
Decode == << UnpackLE32(PySlice(response, 0, 4)), UnpackLE32(PySlice(response, 4, 8)) >>

\* Lines 46-49 and 58-61: the response, if any, is decoded and printed.
DecodeTo(next) ==
    IF ~GotResponse
    THEN cpc' = next /\ UNCHANGED <<decoded, result>>
    ELSE IF ~CanDecode
    THEN Raise /\ UNCHANGED decoded
    ELSE cpc' = next /\ decoded' = Append(decoded, Decode) /\ UNCHANGED result

DecodeLogin ==
    /\ cpc = "decode_login"
    /\ DecodeTo("send_ping")
    /\ UNCHANGED <<net, response>>
    /\ UNCHANGED pvars

\* Lines 53-54: sock.send(ping_msg).
SendPing ==
    /\ cpc = "send_ping"
    /\ \E ok \in BOOLEAN :
          /\ net' = Append(net, [op |-> "send_ping", ok |-> ok, bytes |-> create_ping_message])
          /\ IF ok THEN cpc' = "recv_ping" /\ UNCHANGED result ELSE Raise
    /\ UNCHANGED <<response, decoded>>
    /\ UNCHANGED pvars

\* Line 57: response = sock.recv(1024).
RecvPing ==
    /\ cpc = "recv_ping"
    /\ \/ /\ net' = Append(net, [op |-> "recv", ok |-> FALSE, bytes |-> << >>])
          /\ Raise
          /\ UNCHANGED response
       \/ \E r \in Responses :
             /\ net' = Append(net, [op |-> "recv", ok |-> TRUE, bytes |-> r])
             /\ response' = r
             /\ cpc' = "decode_ping"
             /\ UNCHANGED result
    /\ UNCHANGED decoded
    /\ UNCHANGED pvars

DecodePing ==
    /\ cpc = "decode_ping"
    /\ DecodeTo("close")
    /\ UNCHANGED <<net, response>>
    /\ UNCHANGED pvars

\* Lines 63-65: sock.close(); return True.
Close ==
    /\ cpc = "close"
    /\ net' = Append(net, [op |-> "close", ok |-> TRUE, bytes |-> << >>])
    /\ cpc' = "returned"
    /\ result' = "True"
    /\ UNCHANGED <<response, decoded>>
    /\ UNCHANGED pvars

Init == InitPcap \/ InitClient

Next ==
    \/ CheckGlobalHeader
    \/ ReadRecordHeader
    \/ SliceRecord
    \/ ParseEthernet
    \/ ParseIP
    \/ ParseTCP
    \/ ExtractPayload
    \/ Connect
    \/ SendLogin
    \/ RecvLogin
    \/ DecodeLogin
    \/ SendPing
    \/ RecvPing
    \/ DecodePing
    \/ Close

Spec == Init /\ [][Next]_vars

(***************************************************************************)
(* Vocabulary of the properties.                                           *)
(***************************************************************************)
IsPacket(e) == e.ev = "packet"
IsTcp(e) == e.ev = "tcp"

\* the records yielded so far, in output order
Yielded == SelectSeq(out, IsPacket)

\* the recovered payloads reported so far
Recovered == SelectSeq(out, IsTcp)

\* parse_pcap runs in this behaviour, on a buffer whose description is `input`
PcapRun == pc # "idle"

\* where record k starts in the untruncated buffer, when every earlier record
\* declares its true length
RECURSIVE RecStart(_, _)
RecStart(inp, k) == IF k = 1 THEN 24 ELSE RecStart(inp, k - 1) + 16 + FrameOf(inp, k - 1).len

\* every record before k declares its true length
Aligned(inp, k) == inp.bad = 0 \/ inp.bad >= k

\* the global header of the description is one with the right magic
GoodMagic(inp) == inp.hk \in {"good", "other"}

\* record k's 16-byte header is cut off by the end of the buffer
HeaderCut(inp, k) == RecStart(inp, k) + 16 > Len(data)

\* record k declares more frame bytes than the buffer holds after its header
BodyCut(inp, k) == RecStart(inp, k) + 16 + DeclaredLen(inp, k) > Len(data)

ToU32(n) == U32(n \div 65536, n % 65536)

\* the header lines parse_pcap prints for record k of a well-formed capture
PacketLine(inp, k) ==
    [ev |-> "packet", num |-> k, len |-> FrameOf(inp, k).len,
     ts_sec |-> ToU32(TsSec(k)), ts_usec |-> ToU32(k)]

\* C1: a record whose declared incl_len exceeds the bytes left after its header,
\* or whose header does not fit, ends the iteration: neither it nor any later
\* record is ever yielded, whatever follows in the buffer.
C1_TruncatedRecordStops ==
    PcapRun =>
        \A k \in 1 .. input.n :
            (Aligned(input, k) /\ (HeaderCut(input, k) \/ BodyCut(input, k)))
                => /\ \A i \in 1 .. Len(Yielded) : Yielded[i].num < k
                   /\ pc \in {"eth", "ip", "tcp", "payload"} => packet_num < k
                   /\ pc # "raised"

\* a run has ended at record 1, which declares 70000 bytes beyond its frame,
\* with a whole second record behind it
C1_Witness ==
    /\ pc = "done"
    /\ GoodMagic(input) /\ input.n = 2 /\ input.bad = 1 /\ input.over = 70000 /\ input.cut = 0
    /\ ~HeaderCut(input, 1) /\ BodyCut(input, 1)
    /\ Yielded = << >>

\* C2: a valid global header followed by N complete records yields exactly the
\* N records, numbered 1..N in file order, whatever the frame decoder makes of
\* each frame.
C2_AllRecordsYielded ==
    (PcapRun /\ GoodMagic(input) /\ input.bad = 0 /\ input.cut = 0) =>
        /\ pc # "raised"
        /\ \A i \in 1 .. Len(Yielded) : i <= input.n /\ Yielded[i] = PacketLine(input, i)
        /\ pc = "done" => Len(Yielded) = input.n /\ offset = Len(data)

\* a two-record capture whose first frame is not IPv4 has been read to the end
C2_Witness ==
    /\ pc = "done"
    /\ GoodMagic(input) /\ input.bad = 0 /\ input.cut = 0 /\ input.n = 2
    /\ input.f.eth # 2048 /\ input.g.len = 55
    /\ Len(Yielded) = 2 /\ Len(Recovered) = 1

\* C3: a buffer shorter than 24 bytes is rejected as too small; a buffer of 24
\* bytes or more is rejected as bad magic exactly when its first four bytes are
\* not D4 C3 B2 A1; a rejected buffer has no record read or yielded.
C3_GlobalHeaderCheck ==
    (PcapRun /\ pc # "start") =>
        /\ Len(data) < 24 => out = << [ev |-> "too_small"] >> /\ pc = "done" /\ packet_num = 0
        /\ (Len(data) >= 24 /\ SubSeq(data, 1, 4) # <<212, 195, 178, 161>>)
               => out = << [ev |-> "bad_magic"] >> /\ pc = "done" /\ packet_num = 0
        /\ (Len(data) >= 24 /\ SubSeq(data, 1, 4) = <<212, 195, 178, 161>>)
               => out[1] = [ev |-> "analyzing", size |-> Len(data)]

\* a capture with the byte-swapped magic and one record has been rejected
C3_Witness ==
    /\ pc = "done"
    /\ input.hk = "swapped" /\ input.n = 1 /\ input.cut = 0
    /\ out = << [ev |-> "bad_magic"] >>

\* the last event printed
LastOut == out[Len(out)]

\* the frame decoder has just finished with record packet_num and reported a
\* payload for it (packet_data is still that record's frame)
JustRecovered == pc = "loop" /\ Len(out) > 0 /\ IsTcp(LastOut)

\* the frame decoder has just finished with record packet_num, whatever the outcome
FrameDone == pc = "loop" /\ packet_num >= 1

\* byte i (0-based) of the current frame
B(i) == packet_data[i + 1]

\* record k is complete in the buffer and sits where the description puts it
Complete(inp, k) == Aligned(inp, k) /\ k # inp.bad /\ ~BodyCut(inp, k)

\* frame p is Ethernet/IPv4/TCP with 20-byte IP and TCP headers and K payload bytes
PlainTcp(p, K) == p.eth = 2048 /\ p.vihl = 69 /\ p.proto = 6 /\ p.doff = 80 /\ p.len = 54 + K

\* C4: a frame of exactly 14+20+20+K bytes (K >= 1) with ether type 0x0800,
\* version 4, IHL 5, protocol 6 and data offset 5 yields one recovered payload:
\* the frame's last K bytes, with the big-endian ports at frame offsets 34 and 36.
C4_PlainFramePayload ==
    (PcapRun /\ GoodMagic(input)) =>
        \A k \in 1 .. input.n : \A K \in 1 .. 4 + MaxK :
            (/\ Complete(input, k) /\ PlainTcp(FrameOf(input, k), K)
             /\ (packet_num > k \/ (packet_num = k /\ pc \in {"loop", "done"})))
                => LET F == Frame(FrameOf(input, k))
                       mine == SelectSeq(Recovered, LAMBDA e : e.num = k)
                   IN /\ Len(mine) = 1
                      /\ mine[1].payload = [i \in 1 .. K |-> F[54 + i]]
                      /\ mine[1].src = 256 * F[35] + F[36]
                      /\ mine[1].dst = 256 * F[37] + F[38]

\* the second record of a capture, a plain frame with one payload byte, has
\* been decoded after a first plain frame with MaxK payload bytes
C4_Witness ==
    /\ pc = "done"
    /\ GoodMagic(input) /\ input.n = 2 /\ input.bad = 0 /\ input.cut = 0
    /\ PlainTcp(input.f, MaxK) /\ PlainTcp(input.g, 1)
    /\ Len(Recovered) = 2
    /\ Recovered[2].payload = << Fill(54) >>

\* the current frame passed the Ethernet, IPv4 and TCP checks
PassedChecks == ~EthTooShort /\ ~NotIPv4 /\ ~IpTooShort /\ ~NotIPv4TCP /\ ~TcpTooShort

\* the current frame passed the checks and has no byte at or after payload_start
HeaderOnly == FrameDone /\ PassedChecks /\ payload_start >= Len(packet_data)

C6_RecoveredOnlyIfChecksPass ==
    /\ pc # "raised"
    /\ JustRecovered =>
           /\ Len(packet_data) >= 14
           /\ 256 * B(12) + B(13) = 2048
           /\ Len(packet_data) >= 34
           /\ B(14) \div 16 = 4
           /\ B(23) = 6
           /\ Len(packet_data) >= 14 + (B(14) % 16) * 4 + 20
           /\ LastOut.num = packet_num

\* a payload has been reported for a frame with a 24-byte IP header
C6_Witness ==
    /\ JustRecovered
    /\ B(14) = 70
    /\ Len(LastOut.payload) = MaxK

\* C7: parse_pcap never raises, and every byte range it reads lies inside the
\* buffer or record it is read from.
C7_ReadsInBounds ==
    /\ pc # "raised"
    /\ \A r \in rd : 0 <= r.lo /\ r.lo <= r.hi /\ r.hi <= r.len

\* the four bytes sniffed as a message type were the last four bytes of a record
C7_Witness ==
    /\ JustRecovered
    /\ \E r \in rd : r.hi = r.len /\ r.lo = r.hi - 4
    /\ LastOut.msg_type # << >>

\* C10 as stated: whenever a payload is reported, the IPv4 header length used is
\* 20..60 bytes and the TCP header length used is at least 20 bytes.
C10_HeaderLengthMinima ==
    JustRecovered =>
        /\ 20 <= ip_header_len /\ ip_header_len <= 60
        /\ tcp_header_len >= 20
        /\ payload_start >= 54

\* the operations performed on the socket so far, in order
Ops == [i \in 1 .. Len(net) |-> net[i].op]

\* a recv has returned fewer than 8 bytes (none, when the peer closed) and the
\* harness is past decoding it
ShortResponseAt(i) ==
    /\ net[i].op = "recv" /\ net[i].ok /\ Len(net[i].bytes) < 8
    /\ ~(i = Len(net) /\ cpc \in {"decode_login", "decode_ping"})

\* C8 as stated: a response of fewer than 8 bytes, a zero-length read included,
\* makes test_server stop at once and return failure; a successful run decoded
\* two responses of at least 8 bytes.
C8_ShortResponseFails ==
    /\ \A i \in 1 .. Len(net) :
           ShortResponseAt(i) => i = Len(net) /\ cpc = "returned" /\ result = "False"
    /\ result = "True" =>
           /\ Len(decoded) = 2
           /\ \A i \in 1 .. Len(net) : net[i].op = "recv" => Len(net[i].bytes) >= 8

====
